---- MODULE Spec2Model ----
(***************************************************************************)
(* Model of the background-removal service (src/app.py, src/config.py):    *)
(* the shared rembg session guarded by model_lock, the startup thread,     *)
(* and the HTTP handlers /health, /, /warmup, /remove-background and       *)
(* /api-info, each executed by a worker thread of the HTTP layer.          *)
(***************************************************************************)
EXTENDS Integers, Sequences, FiniteSets, TLC

\* ------------------------------------------------------------------ bounds
NumHttpWorkers == 1   \* worker threads of the HTTP layer
MaxCalls == 3         \* HTTP requests started in one run
MaxFailures == 2      \* attempts of new_session / warm-up that raise

\* --------------------------------------------------------------- constants
MAX_IMAGE_WIDTH == 2048
MAX_IMAGE_HEIGHT == 2048

startup_thread == 0
HttpWorkers == 1..NumHttpWorkers
Workers == {startup_thread} \cup HttpWorkers

allowed_extensions ==
    { <<"p","n","g">>, <<"j","p","g">>, <<"j","p","e","g">>,
      <<"w","e","b","p">>, <<"b","m","p">> }

\* ------------------------------------------------------------ input domains
\* Uploaded file names, as character sequences.
Filenames ==
    { <<>>,
      <<"a",".","p","n","g">>,
      <<"a",".","J","P","G">>,
      <<"a",".","t","x","t">>,
      <<"a",".","t","i","f","f">>,
      <<"p","n","g">> }

\* Sizes (width, height) of decodable uploads.
Dims == { <<100, 50>>, <<4096, 2048>>, <<1000, 3000>> }

\* Values of the background_color form field.
Colors ==
    { <<>>,
      <<"#","0","0","F","F","0","0">>,
      <<"0","0","F","F","0","0">>,
      <<"#","0","F","0">>,
      <<"#","G","G","G","G","G","G">> }

HexDigits == {"0","1","2","3","4","5","6","7","8","9",
              "a","b","c","d","e","f","A","B","C","D","E","F"}

\* ------------------------------------------------------------------- state
VARIABLES
    rembg_session,  \* 0 = None, else the identity of the session object
    model_loaded,   \* the module-level flag
    model_lock,     \* set of workers inside `with model_lock`
    pc,             \* per worker: position in its handler
    kind,           \* per worker: the route being served
    initRet,        \* per worker: value returned by initialize_model
    session,        \* per worker: local `session` of remove_background
    img,            \* per worker: size of input_image
    resp,           \* per worker: the response of its last request
    constructions,  \* number of new_session calls made so far
    created,        \* session objects new_session has returned
    failures,       \* number of initialization attempts that raised
    warmed,         \* sessions whose warm-up remove() has returned
    calls,          \* HTTP requests started so far
    obs             \* per worker: observations of the current call

vars == <<rembg_session, model_loaded, model_lock, pc, kind, initRet, session,
          img, resp, constructions, created, failures, warmed, calls, obs>>

shared == <<rembg_session, model_loaded, model_lock>>

\* --------------------------------------------------------- pure operators
Max(a, b) == IF a >= b THEN a ELSE b

Lower(c) ==
    CASE c = "P" -> "p" [] c = "N" -> "n" [] c = "G" -> "g"
      [] c = "J" -> "j" [] c = "T" -> "t" [] c = "X" -> "x"
      [] c = "I" -> "i" [] c = "F" -> "f" [] c = "A" -> "a"
      [] OTHER -> c

LowerSeq(s) == [i \in 1..Len(s) |-> Lower(s[i])]

HasDot(s) == \E i \in 1..Len(s) : s[i] = "."

LastDot(s) == CHOOSE i \in 1..Len(s) :
                  s[i] = "." /\ \A j \in (i+1)..Len(s) : s[j] # "."

\* file.filename.rsplit('.', 1)[1]
RSplitExt(s) == SubSeq(s, LastDot(s) + 1, Len(s))

\* '.' in file.filename and file.filename.rsplit('.', 1)[1].lower() in allowed_extensions
ExtensionAllowed(s) == HasDot(s) /\ LowerSeq(RSplitExt(s)) \in allowed_extensions

\* background_color and background_color.startswith('#') and len(background_color) == 7
ColorSyntaxOk(c) == Len(c) > 0 /\ c[1] = "#" /\ Len(c) = 7

\* Image.new('RGBA', size, background_color) accepts the color string
ColorParses(c) == Len(c) = 7 /\ c[1] = "#" /\ \A i \in 2..7 : c[i] \in HexDigits

\* ------------------------------------------------------------- responses
NoSize == <<0, 0>>

Resp(status, error, loaded, size, mode) ==
    [status |-> status, error |-> error, model_loaded |-> loaded,
     size |-> size, mode |-> mode]

NoResp == Resp(0, "", FALSE, NoSize, "")

no_image_provided == Resp(400, "No image provided", FALSE, NoSize, "")
no_image_selected == Resp(400, "No image selected", FALSE, NoSize, "")
invalid_file_type == Resp(400, "Invalid file type", FALSE, NoSize, "")
model_unavailable == Resp(503, "Model loading failed", FALSE, NoSize, "")
processing_failed == Resp(500, "Processing failed", FALSE, NoSize, "")

\* A decode failure answered as invalid input instead of by the catch-all handler.
decode_failed_invalid_input == Resp(400, "Invalid image", FALSE, NoSize, "")
\* Image.open raises inside the handler's try: the except clause answers.
decode_failed == processing_failed
warmup_success == Resp(200, "", TRUE, NoSize, "")
warmup_error == Resp(503, "Failed to load model", FALSE, NoSize, "")
StatusDoc(loaded) == Resp(200, "", loaded, NoSize, "")

NoObs == [startedReady |-> FALSE,  \* model_loaded held when the call began
          asked |-> FALSE,         \* the call entered get_rembg_session
          fast |-> FALSE,          \* get_rembg_session saw model_loaded set
          tookLock |-> FALSE,      \* the call acquired model_lock
          built |-> 0,             \* new_session calls made by the call
          failed |-> FALSE,        \* the call's initialization attempt raised
          helped |-> FALSE,        \* another thread's attempt succeeded while
                                   \* the call waited for model_lock
          undecodable |-> FALSE]   \* Image.open raised

\* ------------------------------------------------------------------ Init
Init ==
    /\ rembg_session = 0
    /\ model_loaded = FALSE
    /\ model_lock = {}
    /\ pc = [w \in Workers |-> IF w = startup_thread THEN "acquire" ELSE "idle"]
    /\ kind = [w \in Workers |-> IF w = startup_thread THEN "startup" ELSE "none"]
    /\ initRet = [w \in Workers |-> FALSE]
    /\ session = [w \in Workers |-> 0]
    /\ img = [w \in Workers |-> NoSize]
    /\ resp = [w \in Workers |-> NoResp]
    /\ constructions = 0
    /\ created = {}
    /\ failures = 0
    /\ warmed = {}
    /\ calls = 0
    /\ obs = [w \in Workers |-> NoObs]

\* ------------------------------------------------------- request dispatch
\* A worker of the HTTP layer picks up a request for route k.
BeginCall(w, k) ==
    /\ w \in HttpWorkers
    /\ pc[w] = "idle"
    /\ calls < MaxCalls
    /\ calls' = calls + 1
    /\ kind' = [kind EXCEPT ![w] = k]
    /\ UNCHANGED <<initRet, session>>

\* Observations of a call that starts now.
StartObs == [NoObs EXCEPT !.startedReady = model_loaded]

\* The handler returns r.
Reply(w, r) ==
    /\ resp' = [resp EXCEPT ![w] = r]
    /\ pc' = [pc EXCEPT ![w] = "replied"]

\* The HTTP layer sends the response; the worker and its locals are free again.
Finish(w) ==
    /\ pc[w] = "replied"
    /\ pc' = [pc EXCEPT ![w] = "idle"]
    /\ kind' = [kind EXCEPT ![w] = "none"]
    /\ initRet' = [initRet EXCEPT ![w] = FALSE]
    /\ session' = [session EXCEPT ![w] = 0]
    /\ img' = [img EXCEPT ![w] = NoSize]
    /\ resp' = [resp EXCEPT ![w] = NoResp]
    /\ obs' = [obs EXCEPT ![w] = NoObs]
    /\ UNCHANGED <<shared, constructions, created, failures, warmed, calls>>

\* /health written to load the model on demand instead of only reading the flag.
health_check_lazy(w) ==
    /\ BeginCall(w, "health")
    /\ IF model_loaded
       THEN Reply(w, StatusDoc(model_loaded))
       ELSE /\ pc' = [pc EXCEPT ![w] = "acquire"]
            /\ resp' = resp
    /\ obs' = [obs EXCEPT ![w] = StartObs]
    /\ img' = img
    /\ UNCHANGED <<shared, constructions, created, failures, warmed>>

\* GET /health
health_check(w) ==
    /\ BeginCall(w, "health")
    /\ Reply(w, StatusDoc(model_loaded))
    /\ obs' = [obs EXCEPT ![w] = StartObs]
    /\ img' = img
    /\ UNCHANGED <<shared, constructions, created, failures, warmed>>

\* GET /
home(w) ==
    /\ BeginCall(w, "home")
    /\ Reply(w, StatusDoc(model_loaded))
    /\ obs' = [obs EXCEPT ![w] = StartObs]
    /\ img' = img
    /\ UNCHANGED <<shared, constructions, created, failures, warmed>>

\* GET /api-info
api_info(w) ==
    /\ BeginCall(w, "api_info")
    /\ Reply(w, StatusDoc(model_loaded))
    /\ obs' = [obs EXCEPT ![w] = StartObs]
    /\ img' = img
    /\ UNCHANGED <<shared, constructions, created, failures, warmed>>

\* GET|POST /warmup: calls initialize_model()
warmup_model(w) ==
    /\ BeginCall(w, "warmup")
    /\ pc' = [pc EXCEPT ![w] = "acquire"]
    /\ obs' = [obs EXCEPT ![w] = StartObs]
    /\ UNCHANGED <<resp, img>>
    /\ UNCHANGED <<shared, constructions, created, failures, warmed>>

\* POST /remove-background, up to the call of get_rembg_session:
\* presence, filename and extension checks, then Image.open.
remove_background(w) ==
    /\ BeginCall(w, "remove")
    /\ \/ /\ Reply(w, no_image_provided)
          /\ obs' = [obs EXCEPT ![w] = StartObs]
          /\ img' = img
       \/ \E f \in Filenames :
            IF f = <<>>
            THEN /\ Reply(w, no_image_selected)
                 /\ obs' = [obs EXCEPT ![w] = StartObs]
                 /\ img' = img
            ELSE IF ~ExtensionAllowed(f)
            THEN /\ Reply(w, invalid_file_type)
                 /\ obs' = [obs EXCEPT ![w] = StartObs]
                 /\ img' = img
            ELSE \/ /\ Reply(w, decode_failed)
                    /\ obs' = [obs EXCEPT ![w] = [StartObs EXCEPT !.undecodable = TRUE]]
                    /\ img' = img
                 \/ \E d \in Dims :
                      /\ pc' = [pc EXCEPT ![w] = "get_session"]
                      /\ resp' = resp
                      /\ obs' = [obs EXCEPT ![w] = StartObs]
                      /\ img' = [img EXCEPT ![w] = d]
    /\ UNCHANGED <<shared, constructions, created, failures, warmed>>

\* --------------------------------------------------------- get_rembg_session
\* get_rembg_session without its unlocked check: always calls initialize_model.
get_rembg_session_always_init(w) ==
    /\ pc[w] = "get_session"
    /\ pc' = [pc EXCEPT ![w] = "acquire"]
    /\ obs' = [obs EXCEPT ![w].asked = TRUE]
    /\ UNCHANGED <<shared, kind, initRet, session, img, resp,
                   constructions, created, failures, warmed, calls>>

\* `if not model_loaded:` the unlocked read of the flag.
get_rembg_session(w) ==
    /\ pc[w] = "get_session"
    /\ IF model_loaded
       THEN /\ pc' = [pc EXCEPT ![w] = "ret_session"]
            /\ obs' = [obs EXCEPT ![w].asked = TRUE, ![w].fast = TRUE]
       ELSE /\ pc' = [pc EXCEPT ![w] = "acquire"]
            /\ obs' = [obs EXCEPT ![w].asked = TRUE]
    /\ UNCHANGED <<shared, kind, initRet, session, img, resp,
                   constructions, created, failures, warmed, calls>>

\* ----------------------------------------------------------- initialize_model
\* Entering the critical section without waiting for the lock to be free.
model_lock_acquire_unguarded(w) ==
    /\ pc[w] = "acquire"
    /\ model_lock' = model_lock \cup {w}
    /\ pc' = [pc EXCEPT ![w] = "locked"]
    /\ obs' = [obs EXCEPT ![w].tookLock = TRUE]
    /\ UNCHANGED <<rembg_session, model_loaded, kind, initRet, session, img, resp,
                   constructions, created, failures, warmed, calls>>

\* `with model_lock:` blocks while another thread holds the lock, then takes it.
model_lock_acquire(w) ==
    /\ pc[w] = "acquire"
    /\ model_lock = {}
    /\ model_lock' = model_lock \cup {w}
    /\ pc' = [pc EXCEPT ![w] = "locked"]
    /\ obs' = [obs EXCEPT ![w].tookLock = TRUE]
    /\ UNCHANGED <<rembg_session, model_loaded, kind, initRet, session, img, resp, constructions, created, failures, warmed, calls>>

\* The check under the lock dropped: every call initializes again.
NeedsInitAlways == TRUE

\* A failed attempt made permanent: no attempt after the first failure.
NeedsInitOnce == ~model_loaded /\ failures = 0

\* `if not model_loaded:` read under the lock.
NeedsInit == ~model_loaded

\* The check under the lock: enter the try block, or leave the with block.
initialize_model_check(w) ==
    /\ pc[w] = "locked"
    /\ IF NeedsInit
       THEN /\ pc' = [pc EXCEPT ![w] = "new_session"]
            /\ model_lock' = model_lock
       ELSE /\ pc' = [pc EXCEPT ![w] = "return_loaded"]
            /\ model_lock' = model_lock \ {w}
    /\ UNCHANGED <<rembg_session, model_loaded, kind, initRet, session, img, resp, constructions, created, failures, warmed, calls, obs>>

\* The except clause: log, `return False`, leaving the with block.
InitRaised(w) ==
    /\ failures < MaxFailures
    /\ failures' = failures + 1
    /\ model_lock' = model_lock \ {w}
    /\ initRet' = [initRet EXCEPT ![w] = FALSE]
    /\ pc' = [pc EXCEPT ![w] = "init_returned"]

\* model_loaded set as soon as the session object exists, before the warm-up.
initialize_model_new_session_flag_early(w) ==
    /\ pc[w] = "new_session"
    /\ constructions' = constructions + 1
    /\ \/ /\ rembg_session' = constructions + 1
          /\ created' = created \cup {constructions + 1}
          /\ model_loaded' = TRUE
          /\ pc' = [pc EXCEPT ![w] = "warm_up"]
          /\ obs' = [obs EXCEPT ![w].built = @ + 1]
          /\ UNCHANGED <<model_lock, initRet, failures>>
       \/ /\ InitRaised(w)
          /\ obs' = [obs EXCEPT ![w].built = @ + 1, ![w].failed = TRUE]
          /\ UNCHANGED <<rembg_session, created, model_loaded>>
    /\ UNCHANGED <<kind, session, img, resp, warmed, calls>>

\* rembg_session = new_session('u2net'): a new session object, or an exception.
initialize_model_new_session(w) ==
    /\ pc[w] = "new_session"
    /\ constructions' = constructions + 1
    /\ \/ /\ rembg_session' = constructions + 1
          /\ created' = created \cup {constructions + 1}
          /\ pc' = [pc EXCEPT ![w] = "warm_up"]
          /\ obs' = [obs EXCEPT ![w].built = @ + 1]
          /\ UNCHANGED <<model_lock, initRet, failures>>
       \/ /\ InitRaised(w)
          /\ obs' = [obs EXCEPT ![w].built = @ + 1, ![w].failed = TRUE]
          /\ UNCHANGED <<rembg_session, created>>
    /\ UNCHANGED <<model_loaded, kind, session, img, resp, warmed, calls>>

\* remove(dummy_image, session=rembg_session): returns, or raises.
initialize_model_warm_up(w) ==
    /\ pc[w] = "warm_up"
    /\ \/ /\ warmed' = warmed \cup {rembg_session}
          /\ pc' = [pc EXCEPT ![w] = "set_loaded"]
          /\ UNCHANGED <<model_lock, initRet, failures, obs>>
       \/ /\ InitRaised(w)
          /\ obs' = [obs EXCEPT ![w].failed = TRUE]
          /\ UNCHANGED warmed
    /\ UNCHANGED <<rembg_session, model_loaded, kind, session, img, resp,
                   constructions, created, calls>>

\* model_loaded = True
initialize_model_set_loaded(w) ==
    /\ pc[w] = "set_loaded"
    /\ model_loaded' = TRUE
    /\ pc' = [pc EXCEPT ![w] = "return_true"]
    /\ obs' = [v \in Workers |->
                IF v # w /\ pc[v] = "acquire"
                THEN [obs[v] EXCEPT !.helped = TRUE] ELSE obs[v]]
    /\ UNCHANGED <<rembg_session, model_lock, kind, initRet, session, img,
                   resp, constructions, created, failures, warmed, calls>>

\* `return True` inside the with block: the lock is released.
initialize_model_return_true(w) ==
    /\ pc[w] = "return_true"
    /\ model_lock' = model_lock \ {w}
    /\ initRet' = [initRet EXCEPT ![w] = TRUE]
    /\ pc' = [pc EXCEPT ![w] = "init_returned"]
    /\ UNCHANGED <<rembg_session, model_loaded, kind, session, img, resp,
                   constructions, created, failures, warmed, calls, obs>>

\* The final return written as `return False`.
initialize_model_return_loaded_false(w) ==
    /\ pc[w] = "return_loaded"
    /\ initRet' = [initRet EXCEPT ![w] = FALSE]
    /\ pc' = [pc EXCEPT ![w] = "init_returned"]
    /\ UNCHANGED <<shared, kind, session, img, resp,
                   constructions, created, failures, warmed, calls, obs>>

\* `return model_loaded` after the with block.
initialize_model_return_loaded(w) ==
    /\ pc[w] = "return_loaded"
    /\ initRet' = [initRet EXCEPT ![w] = model_loaded]
    /\ pc' = [pc EXCEPT ![w] = "init_returned"]
    /\ UNCHANGED <<shared, kind, session, img, resp,
                   constructions, created, failures, warmed, calls, obs>>

\* ------------------------------------------------ callers of initialize_model
\* startup_model_init: the background thread ends after initialize_model().
startup_model_init(w) ==
    /\ pc[w] = "init_returned"
    /\ kind[w] = "startup"
    /\ pc' = [pc EXCEPT ![w] = "halted"]
    /\ UNCHANGED <<shared, kind, initRet, session, img, resp,
                   constructions, created, failures, warmed, calls, obs>>

\* warmup_model: `if initialize_model():` 200, else 503.
warmup_model_reply(w) ==
    /\ pc[w] = "init_returned"
    /\ kind[w] = "warmup"
    /\ Reply(w, IF initRet[w] THEN warmup_success ELSE warmup_error)
    /\ UNCHANGED <<shared, kind, initRet, session, img,
                   constructions, created, failures, warmed, calls, obs>>

\* get_rembg_session ignoring the result of initialize_model.
get_rembg_session_init_returned_unchecked(w) ==
    /\ pc[w] = "init_returned"
    /\ kind[w] = "remove"
    /\ pc' = [pc EXCEPT ![w] = "ret_session"]
    /\ UNCHANGED <<shared, kind, initRet, session, img, resp,
                   constructions, created, failures, warmed, calls, obs>>

\* get_rembg_session: `if not initialize_model(): return None`; the caller
\* answers 503 for a None session.
get_rembg_session_init_returned(w) ==
    /\ pc[w] = "init_returned"
    /\ kind[w] = "remove"
    /\ IF ~initRet[w]
       THEN Reply(w, model_unavailable)
       ELSE /\ pc' = [pc EXCEPT ![w] = "ret_session"]
            /\ resp' = resp
    /\ UNCHANGED <<shared, kind, initRet, session, img,
                   constructions, created, failures, warmed, calls, obs>>

\* get_rembg_session: `return rembg_session`, then `if session is None:` 503.
get_rembg_session_return(w) ==
    /\ pc[w] = "ret_session"
    /\ session' = [session EXCEPT ![w] = rembg_session]
    /\ IF rembg_session = 0
       THEN Reply(w, model_unavailable)
       ELSE /\ pc' = [pc EXCEPT ![w] = "remove"]
            /\ resp' = resp
    /\ UNCHANGED <<shared, kind, initRet, img,
                   constructions, created, failures, warmed, calls, obs>>

\* ------------------------------------------------- inference and compositing
\* The size of the image handed to remove(): input_image as decoded.
RemoveInputSize(w) == img[w]

\* The background-color block: composited RGB when the colour passes the
\* syntactic check and compositing succeeds, else the RGBA result unchanged.
OutputMode(c) == IF ColorSyntaxOk(c) /\ ColorParses(c) THEN "RGB" ELSE "RGBA"

\* remove(input_image, session=session), compositing, PNG encoding, send_file;
\* an exception in remove() or in encoding is answered by the except clause.
remove_background_process(w) ==
    /\ pc[w] = "remove"
    /\ \/ \E c \in Colors :
            Reply(w, Resp(200, "", FALSE, RemoveInputSize(w), OutputMode(c)))
       \/ Reply(w, processing_failed)
    /\ UNCHANGED <<shared, kind, initRet, session, img,
                   constructions, created, failures, warmed, calls, obs>>

\* ------------------------------------------------------------ specification
Next ==
    \E w \in Workers :
        \/ health_check(w)
        \/ home(w)
        \/ api_info(w)
        \/ warmup_model(w)
        \/ remove_background(w)
        \/ get_rembg_session(w)
        \/ model_lock_acquire(w)
        \/ initialize_model_check(w)
        \/ initialize_model_new_session(w)
        \/ initialize_model_warm_up(w)
        \/ initialize_model_set_loaded(w)
        \/ initialize_model_return_true(w)
        \/ initialize_model_return_loaded(w)
        \/ startup_model_init(w)
        \/ warmup_model_reply(w)
        \/ get_rembg_session_init_returned(w)
        \/ get_rembg_session_return(w)
        \/ remove_background_process(w)
        \/ Finish(w)

Spec == Init /\ [][Next]_vars


\* ------------------------------------------------------------------ claims
InTry(w) == pc[w] \in {"new_session", "warm_up", "set_loaded", "return_true"}
InInit(w) == pc[w] \in {"acquire", "locked", "return_loaded"} \/ InTry(w)
Building == {w \in Workers : pc[w] \in {"warm_up", "set_loaded"}}
Replied(w) == pc[w] = "replied"
LongSide(d) == Max(d[1], d[2])
Abs(n) == IF n < 0 THEN 0 - n ELSE n

\* C1 as stated: once the startup thread's call has returned and nobody is in
\* the critical section, new_session has been performed exactly once in total.
C1_ExactlyOneConstruction ==
    (pc[startup_thread] = "halted" /\ model_lock = {}) => constructions = 1

\* C1 amended: attempts are serialized by model_lock and new_session is
\* performed once per attempt; only an attempt that raised is followed by
\* another, so the constructions are the failed attempts, the attempt in
\* progress, and at most one successful one; with no failed attempt
\* new_session is performed exactly once.
C1_OneConstructionPerAttempt ==
    /\ Cardinality(model_lock) <= 1
    /\ Cardinality(Building) <= 1
    /\ constructions = failures + Cardinality(Building)
                         + (IF model_loaded THEN 1 ELSE 0)
    /\ (failures = 0 /\ pc[startup_thread] = "halted") => constructions = 1

\* Two threads called concurrently, one waited, and one construction was made.
C1_Witness ==
    /\ failures = 0 /\ constructions = 1 /\ model_loaded
    /\ pc[startup_thread] = "halted"
    /\ \E w \in HttpWorkers : obs[w].helped /\ obs[w].tookLock /\ Replied(w)

\* C2: once model_loaded is true it stays true, no step constructs or warms
\* up a session or rebinds rembg_session, and every call begun afterwards
\* gets True from initialize_model, a non-null session, and no 503.
C2_ReadinessMonotonic ==
    [][model_loaded =>
         /\ model_loaded'
         /\ constructions' = constructions
         /\ created' = created
         /\ warmed' = warmed
         /\ rembg_session' = rembg_session
         /\ \A w \in Workers :
               obs'[w].startedReady =>
                  /\ ~InTry(w)'
                  /\ pc'[w] = "init_returned" => initRet'[w]
                  /\ pc'[w] = "remove" => session'[w] = rembg_session' /\ session'[w] # 0
                  /\ Replied(w)' => resp'[w].status # 503]_vars

\* A /warmup and a /remove-background call begun after readiness have answered.
C2_Witness ==
    \E w \in HttpWorkers :
        /\ obs[w].startedReady /\ obs[w].tookLock
        /\ kind[w] = "warmup" /\ Replied(w) /\ resp[w] = warmup_success
        /\ constructions = 1

\* C3: when a call's construction or warm-up raises, the step leaves
\* model_loaded false and initialize_model returns False; the call never
\* reaches a session or the inference, and answers 503 (for /warmup with
\* model_loaded false in the body), never 200 or 500.
C3_FailureAnswers503 ==
    [][\A w \in Workers :
          /\ (~obs[w].failed /\ obs'[w].failed) =>
                 ~model_loaded' /\ ~initRet'[w] /\ pc'[w] = "init_returned"
                 /\ w \notin model_lock'
          /\ obs'[w].failed =>
                 /\ pc'[w] \in {"init_returned", "replied", "halted"}
                 /\ ~initRet'[w]
                 /\ session'[w] = 0
                 /\ Replied(w)' =>
                       /\ resp'[w].status = 503
                       /\ ~resp'[w].model_loaded
                       /\ kind'[w] = "warmup" => resp'[w] = warmup_error
                       /\ kind'[w] = "remove" => resp'[w] = model_unavailable]_vars

\* A /remove-background call with a valid upload whose warm-up raised after a
\* session object had been constructed has answered 503.
C3_Witness ==
    \E w \in HttpWorkers :
        /\ obs[w].failed /\ kind[w] = "remove" /\ Replied(w)
        /\ resp[w].status = 503 /\ img[w] \in Dims
        /\ rembg_session # 0 /\ ~model_loaded

configured_max == Max(MAX_IMAGE_WIDTH, MAX_IMAGE_HEIGHT)

\* C5: the image handed to background removal, and so the output, has its
\* longer side at the configured maximum (within rounding) and the aspect
\* ratio of the upload when the upload's longer side exceeds the maximum,
\* and the upload's size otherwise.
C5_ResizedToMax ==
    \A w \in Workers :
        (kind[w] = "remove" /\ Replied(w) /\ resp[w].status = 200) =>
            IF LongSide(img[w]) > configured_max
            THEN /\ Abs(LongSide(resp[w].size) - configured_max) <= 1
                 /\ Abs(resp[w].size[1] * img[w][2] - resp[w].size[2] * img[w][1])
                       <= LongSide(img[w])
            ELSE resp[w].size = img[w]

\* C6: a failed attempt is not final. The failing step releases model_lock
\* and leaves the session not ready; every call that then checks the flag
\* under the lock while it is false, whatever the number of earlier
\* failures, enters new_session again; initialize_model returns False only
\* to a call whose own attempt raised; an attempt whose warm-up returned
\* sets model_loaded, after which the session is ready.
C6_FailedNotTerminal ==
    [][\A w \in Workers :
          /\ (pc[w] = "locked" /\ ~model_loaded /\ pc'[w] # "locked") =>
                 pc'[w] = "new_session"
          /\ (pc[w] = "new_session" /\ pc'[w] # "new_session") =>
                 (constructions' = constructions + 1
                    /\ pc'[w] \in {"warm_up", "init_returned"})
          /\ (~obs[w].failed /\ obs'[w].failed) =>
                 (w \notin model_lock' /\ model_lock' = {} /\ ~model_loaded')
          /\ (pc'[w] = "init_returned" /\ ~initRet'[w]) => obs'[w].failed
          /\ (pc[w] = "set_loaded" /\ pc'[w] # "set_loaded") => model_loaded'
          /\ (Replied(w)' /\ resp'[w].status = 503) =>
                 (obs'[w].failed /\ ~obs'[w].startedReady)]_vars

\* After a failed attempt a later attempt succeeded and a request begun
\* afterwards was served.
C6_Witness ==
    /\ failures > 0 /\ model_loaded
    /\ \E w \in HttpWorkers :
          /\ kind[w] = "remove" /\ Replied(w) /\ resp[w].status = 200
          /\ obs[w].startedReady

\* C7 as stated: a call of initialize_model made when the session is already
\* ready does not acquire model_lock and is never waiting for it.
C7_InitializeFastPath ==
    \A w \in Workers :
        obs[w].startedReady => (~obs[w].tookLock /\ pc[w] # "acquire")

\* C7 amended: the unlocked check is in get_rembg_session, not in
\* initialize_model. A get_rembg_session call that sees model_loaded true
\* returns the session without calling initialize_model, so it neither
\* acquires nor waits for model_lock; initialize_model itself always acquires
\* the lock, so every /warmup call and the startup thread take it even when
\* the session is ready.
C7_GetSessionFastPath ==
    \A w \in Workers :
        /\ (kind[w] = "remove" /\ obs[w].startedReady) =>
              (~obs[w].tookLock /\ ~InInit(w) /\ pc[w] # "init_returned")
        /\ obs[w].fast => (~obs[w].tookLock /\ ~InInit(w))
        /\ (kind[w] = "warmup" /\ pc[w] \in {"init_returned", "replied"}) =>
              obs[w].tookLock

\* A request proceeds to inference through the fast path while another
\* thread still holds model_lock.
C7_Witness ==
    \E w \in HttpWorkers :
        /\ obs[w].fast /\ pc[w] = "remove"
        /\ model_lock # {} /\ w \notin model_lock

\* C8: a call that was waiting for model_lock while another thread's attempt
\* succeeded makes no construction of its own, gets True from
\* initialize_model, receives the session that attempt stored, and is not
\* answered 503.
C8_WaiterSharesSession ==
    \A w \in Workers :
        obs[w].helped =>
            /\ obs[w].built = 0 /\ ~obs[w].failed
            /\ ~InTry(w)
            /\ pc[w] = "init_returned" => initRet[w]
            /\ pc[w] = "remove" =>
                  /\ session[w] # 0
                  /\ session[w] = rembg_session
                  /\ session[w] \in warmed
            /\ Replied(w) => resp[w].status # 503

\* A request that waited for the lock during the successful attempt of
\* another thread was served with the shared session.
C8_Witness ==
    \E w \in HttpWorkers :
        /\ obs[w].helped /\ kind[w] = "remove" /\ obs[w].tookLock
        /\ Replied(w) /\ resp[w].status = 200 /\ session[w] = rembg_session

\* C9: model_loaded implies rembg_session is the one session whose warm-up
\* completed; every session a request holds is that session, and inference
\* runs only on it.
C9_LoadedSessionIsWarmed ==
    /\ Cardinality(warmed) <= 1
    /\ warmed \subseteq created
    /\ model_loaded => (rembg_session # 0 /\ warmed = {rembg_session})
    /\ \A w \in Workers :
          /\ session[w] # 0 =>
                (model_loaded /\ session[w] = rembg_session /\ session[w] \in warmed)
          /\ pc[w] = "remove" => (session[w] # 0 /\ session[w] \in warmed)

\* An earlier attempt constructed a session and failed its warm-up; a request
\* now runs inference on the later, warmed-up session.
C9_Witness ==
    /\ Cardinality(created) >= 2
    /\ \E w \in HttpWorkers : pc[w] = "remove" /\ session[w] \in warmed
    /\ \E s \in created : s \notin warmed

\* C10: /health, / and /api-info, and a /remove-background request answered
\* 400, never call get_rembg_session or initialize_model and never hold
\* model_lock; the step that answers them leaves rembg_session, model_loaded
\* and model_lock unchanged.
C10_RejectedLeavesSessionAlone ==
    [][\A w \in Workers :
          (kind'[w] \in {"health", "home", "api_info"}
             \/ (Replied(w)' /\ resp'[w].status = 400)) =>
              /\ Replied(w)'
              /\ ~obs'[w].asked /\ ~obs'[w].tookLock
              /\ w \notin model_lock'
              /\ session'[w] = 0
              /\ ~Replied(w) =>
                    (pc[w] = "idle" /\ UNCHANGED <<rembg_session, model_loaded, model_lock>>)]_vars

\* A request with a disallowed extension is answered 400 while another thread
\* is inside the critical section, before the session is ready.
C10_Witness ==
    \E w \in HttpWorkers :
        /\ Replied(w) /\ resp[w] = invalid_file_type
        /\ ~model_loaded /\ model_lock # {}

====
